---- MODULE Spec2Model ----
(***************************************************************************)
(* Model of the recursive page-to-Markdown crawler                         *)
(* (WebScrapping/CAR/PagBasicaRecursiva2md.py, class MarkdownExtractor).   *)
(*                                                                         *)
(* Strings are sequences of one-character strings, so that the string      *)
(* operations of the code (rstrip, strip, slicing, re.sub, os.path.join,   *)
(* len) are computed and not assumed.  A URL string is kept in the parsed  *)
(* form urlparse gives it: netloc, path, query, fragment (every URL of the *)
(* model has the scheme https and a non-empty netloc).                     *)
(*                                                                         *)
(* The web (what the transport answers and what each page contains) is     *)
(* fixed when a run starts and is part of the state; the recursion of      *)
(* fetch_and_save is an explicit stack of call frames.                     *)
(*                                                                         *)
(* The module also models the eCFR downloader (WebScrapping/eCFR/          *)
(* eCFRconAPI.py, main and its quit thread), a separate program with its   *)
(* own variables and its own specification ESpec, and the function         *)
(* indentar_html_listas of WebScrapping/eCFR/xml2md.py under ListSpec;     *)
(* while one program runs, the variables of the others keep their initial  *)
(* values.                                                                 *)
(***************************************************************************)
EXTENDS Integers, Sequences, FiniteSets, TLC

VARIABLES
    max_depth,     \* self.max_depth
    base_folder,   \* self.base_folder
    visited_urls,  \* self.visited_urls
    root_url,      \* args.url, the URL main() hands to fetch_and_save
    web,           \* the transport and the pages: [fail, resp_url, main, hrefs]
    files,         \* the output tree: set of [filepath, folder, source]
    stack,         \* call frames of fetch_and_save, innermost last
    status,        \* "init", "running", "done" (main returned), "crashed" (exception)
    fetched,       \* history: the URLs handed to requests.get, in order
    saved,         \* history: the final URLs written, in order
    abandoned,     \* history: links left unprocessed when an exception unwound the stack
    \* eCFRconAPI.py
    max_arg,       \* args.max: None or an integer
    listing,       \* data["content_versions"]: the identifiers the API lists
    failing,       \* the identifiers for which fetch_full_text raises
    entries,       \* the local variable entries
    idx,           \* position of the for loop in entries
    stop_after,    \* the global flag stop_after
    e_pc,          \* where main() is
    quit_pc,       \* the quit thread: "none", "waiting" (keyboard.wait) or "done"
    out,           \* salida_completa.xml: its lines and section blocks, in order
    requests,      \* history: the section requests started, in order
    \* _normalize_url on its own
    norm_in,       \* the URL handed to _normalize_url
    norm_out,      \* the results of applying _normalize_url once, twice, ...
    \* xml2md.py, indentar_html_listas
    paragraphs,    \* soup.find_all("p"): the text of each <p>, in document order
    nested,        \* the paragraph that sits inside the one before it (0: none)
    p_idx,         \* position of the for loop in paragraphs
    ul_stack,      \* the local variable stack: the open <ul> elements
    uls,           \* the <ul> elements created so far
    removed,       \* the paragraphs p.decompose() has destroyed
    l_pc           \* where indentar_html_listas is

cvars == <<max_depth, base_folder, visited_urls, root_url, web, files, stack,
           status, fetched, saved, abandoned>>
evars == <<max_arg, listing, failing, entries, idx, stop_after, e_pc, quit_pc,
           out, requests>>
nvars == <<norm_in, norm_out>>
lvars == <<paragraphs, nested, p_idx, ul_stack, uls, removed, l_pc>>
vars == <<cvars, evars, nvars, lvars>>

----------------------------------------------------------------------------
(* Bounds of the model *)

MaxDepth == 2      \* max_depth ranges over 0..MaxDepth
MaxLinks == 2      \* the root page carries at most MaxLinks hrefs
LongLen == 58      \* length of the long path segment of page B
LongBase == 170    \* length of a long base folder
HugeBase == 230    \* length of a longer base folder
MaxPath == 4       \* longest path of a URL handed to _normalize_url on its own
MaxEntries == 3    \* the API lists at most MaxEntries sections
MaxParagraphs == 4 \* the HTML handed to indentar_html_listas has at most MaxParagraphs <p>

(* Program constants *)

PathLimit == 240   \* len(filepath) > 240
NameLimit == 50    \* safe[-50:]
PrefixLen == 8     \* hexdigest()[:8]
ShortLen == 10     \* hexdigest()[:10]

----------------------------------------------------------------------------
(* Strings *)

\* the character c, n times
Rep(c, n) == [i \in 1..n |-> c]

RECURSIVE RStrip(_, _)
\* s.rstrip(c): every trailing c is removed
RStrip(s, c) ==
    IF s # <<>> /\ s[Len(s)] = c THEN RStrip(SubSeq(s, 1, Len(s) - 1), c) ELSE s

RECURSIVE LStrip(_, _)
LStrip(s, c) == IF s # <<>> /\ Head(s) = c THEN LStrip(Tail(s), c) ELSE s

\* s.strip(c)
Strip(s, c) == LStrip(RStrip(s, c), c)

Hex == <<"0", "1", "2", "3", "4", "5", "6", "7", "8", "9", "a", "b", "c", "d", "e", "f">>

\* the decimal digits of n, three of them
Digits3(n) == <<Hex[((n \div 100) % 10) + 1], Hex[((n \div 10) % 10) + 1], Hex[(n % 10) + 1]>>

None == <<"None">>

----------------------------------------------------------------------------
(* URLs *)

Url(n, p, q, f) == [netloc |-> n, path |-> p, query |-> q, fragment |-> f]

\* the greatest and the least element of a non-empty set of numbers
Greatest(S) == CHOOSE i \in S : \A j \in S : j <= i
Least(S) == CHOOSE i \in S : \A j \in S : i <= j

\* the path with its parameters cut off, as urlparse does for http and https
\* URLs: at the first ";" of the last segment (q is the path, as a value)
SplitParams(q) ==
    LET slashes == {i \in 1..Len(q) : q[i] = "/"}
        last == IF slashes = {} THEN 0 ELSE Greatest(slashes)
        semis == {i \in (last + 1)..Len(q) : q[i] = ";"}
    IN  IF semis = {} THEN q ELSE SubSeq(q, 1, Least(semis) - 1)

\* p.path of p = urlparse(url)
DropParams(path) == CHOOSE r \in {SplitParams(q) : q \in {path}} : TRUE

\* f"{p.scheme}://{p.netloc}{p.path}".rstrip("/") with p = urlparse(url): with
\* a non-empty netloc the trailing slashes all belong to the path; query and
\* fragment are dropped
_normalize_url(u) ==
    CHOOSE r \in {Url(p.netloc, RStrip(DropParams(p.path), "/"), <<>>, <<>>) : p \in {u}} : TRUE

\* the pages of the model
PathB == <<"/", "d", "/">> \o Rep("b", LongLen)
R == Url("h", <<>>, <<>>, <<>>)               \* https://h
A == Url("h", <<"/", "a">>, <<>>, <<>>)       \* https://h/a
B == Url("h", PathB, <<>>, <<>>)              \* https://h/d/bbb...b
C == Url("h", <<"/", "c">>, <<>>, <<>>)       \* https://h/c
X == Url("x", <<"/", "a">>, <<>>, <<>>)       \* https://x/a
SitePages == {R, A, B}
Pages == {R, A, B, C, X}

\* hashlib.md5(s.encode()).hexdigest()[:8] of a URL string.  MD5 is not computed:
\* the digest is an 8-character code of the URL (netloc, path length, last path
\* character) that is distinct for distinct canonical URLs of the model.
md5_hex8(u) ==
    <<u.netloc>> \o Digits3(Len(u.path))
        \o <<IF u.path = <<>> THEN "0" ELSE u.path[Len(u.path)]>>
        \o Rep("0", PrefixLen - 5)

\* hashlib.md5(filepath.encode()).hexdigest()[:10] of a path string: a
\* 10-character code that is a function of the path alone
md5_hex10(p) ==
    Digits3(Len(p)) \o SubSeq(Rep("0", ShortLen) \o p, Len(p) + 4, Len(p) + ShortLen)

----------------------------------------------------------------------------
(* hrefs and link discovery (lines 75-93) *)

\* An href is a URL reference; netloc "" makes it relative.  "" is the empty
\* href and "#f" a pure fragment.
HrefEmpty == Url("", <<>>, <<>>, <<>>)
HrefFrag == Url("", <<>>, <<>>, <<"f">>)
HrefToA == Url("h", <<"/", "a", "/">>, <<"q">>, <<>>)  \* "https://h/a/?q"
HrefToB == Url("", PathB, <<>>, <<"f">>)                \* "/d/bbb...b#f"
HrefToR == Url("", <<"/">>, <<>>, <<>>)                 \* "/"
HrefQuery == Url("", <<>>, <<"q">>, <<>>)               \* "?q", the page itself
HrefToX == Url("x", <<"/", "a">>, <<>>, <<>>)           \* "https://x/a"
HrefParams == Url("", <<"/", "a", ";", "v", "/">>, <<>>, <<>>)  \* "/a;v/"
HrefToC == Url("", <<"/", "c">>, <<>>, <<>>)            \* "/c"

\* the directory part of a path: everything up to and including the last "/"
RECURSIVE DirPart(_)
DirPart(p) == IF p = <<>> \/ p[Len(p)] = "/" THEN p ELSE DirPart(SubSeq(p, 1, Len(p) - 1))

\* urllib.parse.urljoin(base, href) for the reference forms above
urljoin(base, href) ==
    IF href.netloc # "" THEN href
    ELSE IF href.path = <<>>
         THEN Url(base.netloc, base.path,
                  IF href.query # <<>> THEN href.query ELSE base.query, href.fragment)
    ELSE IF Head(href.path) = "/"
         THEN Url(base.netloc, href.path, href.query, href.fragment)
    ELSE Url(base.netloc,
             (IF base.path = <<>> THEN <<"/">> ELSE DirPart(base.path)) \o href.path,
             href.query, href.fragment)

\* href.startswith("#")
IsFragment(href) ==
    href.netloc = "" /\ href.path = <<>> /\ href.query = <<>> /\ href.fragment # <<>>

RECURSIVE extract_links_AnyDomain(_, _)
extract_links_AnyDomain(hrefs, final_url) ==
    IF hrefs = <<>> THEN <<>>
    ELSE LET href == Head(hrefs)
             norm_link == _normalize_url(urljoin(final_url, href))
             rest == extract_links_AnyDomain(Tail(hrefs), final_url)
         IN  IF href = HrefEmpty \/ IsFragment(href) THEN rest
             ELSE IF norm_link = final_url THEN rest
             ELSE <<norm_link>> \o rest

\* the loop of lines 79-93 over the <a href> elements of the content region
RECURSIVE extract_links(_, _)
extract_links(hrefs, final_url) ==
    IF hrefs = <<>> THEN <<>>
    ELSE LET href == Head(hrefs)
             norm_link == _normalize_url(urljoin(final_url, href))
             rest == extract_links(Tail(hrefs), final_url)
         IN  IF href = HrefEmpty \/ IsFragment(href) THEN rest
             ELSE IF norm_link.netloc # final_url.netloc THEN rest
             ELSE IF norm_link = final_url THEN rest
             ELSE <<norm_link>> \o rest

----------------------------------------------------------------------------
(* File path construction (lines 105-119, 145-150) *)

\* os.path.join(a, b)
path_join(a, b) ==
    IF b # <<>> /\ Head(b) = "/" THEN b
    ELSE IF a = <<>> \/ a[Len(a)] = "/" THEN a \o b
    ELSE a \o <<"/">> \o b

Unsafe == {"<", ">", ":", "\"", "/", "\\", "|", "?", "*"}

\* re.sub(r'[<>:"/\\|?*]', "_", path)
Sanitize(s) == [i \in 1..Len(s) |-> IF s[i] \in Unsafe THEN "_" ELSE s[i]]

\* _filename_from_url
_filename_from_url(u) ==
    LET stripped == Strip(u.path, "/")
        path == IF stripped = <<>> THEN <<"i", "n", "d", "e", "x">> ELSE stripped
        safe == Sanitize(path)
        short == IF Len(safe) > NameLimit
                 THEN SubSeq(safe, Len(safe) - NameLimit + 1, Len(safe)) ELSE safe
    IN  short \o <<".", "m", "d">>

FolderOf_Flat(base, parent_folder, final_url) == path_join(base, md5_hex8(final_url))

\* lines 107-109: the folder of the document
FolderOf(base, parent_folder, final_url) ==
    path_join(IF parent_folder = None THEN base ELSE path_join(base, parent_folder),
              md5_hex8(final_url))

\* lines 113-119: the path the document is written to
FilepathOf(folder, final_url) ==
    LET filepath == path_join(folder, _filename_from_url(final_url))
    IN  IF Len(filepath) > PathLimit
        THEN path_join(folder, md5_hex10(filepath) \o <<".", "m", "d">>)
        ELSE filepath

----------------------------------------------------------------------------
(* The web: what requests.get answers and what BeautifulSoup finds *)

RECURSIVE SeqsUpTo(_, _)
SeqsUpTo(n, S) ==
    IF n = 0 THEN {<<>>}
    ELSE LET shorter == SeqsUpTo(n - 1, S)
         IN  shorter \cup {Append(q, x) : q \in {t \in shorter : Len(t) = n - 1}, x \in S}

RawRoot == Url("h", <<"/">>, <<"q">>, <<"f">>)   \* "https://h/?q#f"
RawB == Url("h", PathB \o <<"/">>, <<>>, <<>>)    \* "https://h/d/bbb...b/"

RootPool == {HrefToA, HrefToB, HrefToX, HrefFrag}
HrefsOfA == {<<>>, <<HrefToB>>, <<HrefToR>>, <<HrefParams>>,
             <<HrefEmpty, HrefFrag, HrefQuery, HrefToB>>}
HrefsOfB == {<<>>, <<HrefToA>>, <<HrefToR, HrefToA>>}

\* fail: the requests for which requests.get or raise_for_status raises;
\* resp_url: resp.url, the URL after redirects; main: the pages that have a
\* <main> element; hrefs: the <a href> values inside it, in document order;
\* noise: the positions of those that sit inside a nav, header, footer or aside
\* element of it; field_item and content_block: the div.field-item and
\* div.content-block elements of the page, in document order, each with its
\* hrefs and noise.
WebOf(f, nm, ra, hr, ha, hb) ==
    [fail |-> f, resp_url |-> [p \in Pages |-> IF p = A THEN ra ELSE p],
     main |-> Pages \ nm, hrefs |-> [p \in Pages |-> CASE p = R -> hr
                                                        [] p = A -> ha
                                                        [] p = B -> hb
                                                        [] p = C -> <<>>
                                                        [] OTHER -> <<HrefToA>>],
     noise |-> [p \in Pages |-> {}],
     field_item |-> [p \in Pages |-> <<>>],
     content_block |-> [p \in Pages |-> <<>>]]

\* an element with <a href> values, some of them inside noise elements
Block(hrefs, noise) == [hrefs |-> hrefs, noise |-> noise]

\* lines 65-69: soup.find("main") or soup.find("div", class_="field-item") or
\* soup.find("div", class_="content-block"), for the page answered under p;
\* find returns the first match in document order
main_content_BlockFirst(w, p) ==
    IF w.content_block[p] # <<>>
    THEN [by |-> "content-block", hrefs |-> w.content_block[p][1].hrefs,
          noise |-> w.content_block[p][1].noise]
    ELSE IF w.field_item[p] # <<>>
    THEN [by |-> "field-item", hrefs |-> w.field_item[p][1].hrefs,
          noise |-> w.field_item[p][1].noise]
    ELSE IF p \in w.main
    THEN [by |-> "main", hrefs |-> w.hrefs[p], noise |-> w.noise[p]]
    ELSE [by |-> "none", hrefs |-> <<>>, noise |-> {}]

main_content(w, p) ==
    IF p \in w.main
    THEN [by |-> "main", hrefs |-> w.hrefs[p], noise |-> w.noise[p]]
    ELSE IF w.field_item[p] # <<>>
    THEN [by |-> "field-item", hrefs |-> w.field_item[p][1].hrefs,
          noise |-> w.field_item[p][1].noise]
    ELSE IF w.content_block[p] # <<>>
    THEN [by |-> "content-block", hrefs |-> w.content_block[p][1].hrefs,
          noise |-> w.content_block[p][1].noise]
    ELSE [by |-> "none", hrefs |-> <<>>, noise |-> {}]

\* the subsequence of s at the positions in keep
RECURSIVE Keep(_, _)
Keep(s, keep) ==
    IF s = <<>> THEN <<>>
    ELSE Keep(SubSeq(s, 1, Len(s) - 1), keep)
            \o (IF Len(s) \in keep THEN <<s[Len(s)]>> ELSE <<>>)

\* lines 97-101: the noise elements are decomposed and what is left is
\* converted; of the document, the model keeps the hrefs of its links
markdown(region) == Keep(region.hrefs, DOMAIN region.hrefs \ region.noise)

link_hrefs_AfterDecompose(region) == markdown(region)

\* line 79: main_content.find_all("a", href=True), on the region as parsed
link_hrefs(region) == region.hrefs

\* the failing requests and the pages without content region, together
Faults == {<<{}, {}>>, <<{A}, {}>>, <<{B}, {}>>, <<{R}, {}>>,
           <<{}, {B}>>, <<{}, {R}>>, <<{A}, {B}>>}

Webs ==
    { WebOf(ft[1], ft[2], ra, hr, ha, hb) :
        ft \in Faults, ra \in {A, RawB, X},
        hr \in SeqsUpTo(MaxLinks, RootPool), ha \in HrefsOfA, hb \in HrefsOfB }

----------------------------------------------------------------------------
(* State *)

\* args.max: not given (the default None), or the integer given
NoMax == [given |-> FALSE, n |-> 0]
MaxOf(n) == [given |-> TRUE, n |-> n]

\* the eCFR downloader before main() is called
EIdle ==
    /\ max_arg = NoMax
    /\ listing = <<>>
    /\ failing = {}
    /\ entries = <<>>
    /\ idx = 0
    /\ stop_after = FALSE
    /\ e_pc = "idle"
    /\ quit_pc = "none"
    /\ out = <<>>
    /\ requests = <<>>

\* no call of _normalize_url on its own
NIdle == norm_in = None /\ norm_out = <<>>

\* no call of indentar_html_listas
LIdle ==
    /\ paragraphs = <<>>
    /\ nested = 0
    /\ p_idx = 0
    /\ ul_stack = <<>>
    /\ uls = <<>>
    /\ removed = {}
    /\ l_pc = "idle"

Output == <<"o", "u", "t", "p", "u", "t">>

\* MarkdownExtractor.__init__ and the parsed arguments
Init ==
    /\ max_depth \in 0..MaxDepth
    /\ base_folder = Output
    /\ root_url \in {R, RawRoot}
    /\ web \in Webs
    /\ visited_urls = {}
    /\ files = {}
    /\ stack = <<>>
    /\ status = "init"
    /\ fetched = <<>>
    /\ saved = <<>>
    /\ abandoned = <<>>
    /\ EIdle /\ NIdle /\ LIdle

\* a smaller family of webs, every link of which stays on the site
SiteWebs ==
    { WebOf(f, nm, ra, hr, ha, hb) :
        f \in {{}, {B}}, nm \in {{}, {B}}, ra \in {A, RawB},
        hr \in SeqsUpTo(MaxLinks, {HrefToA, HrefToB}), ha \in HrefsOfA, hb \in HrefsOfB }

Crawler(d, b, u, w) ==
    /\ max_depth = d
    /\ base_folder = b
    /\ root_url = u
    /\ web = w
    /\ visited_urls = {}
    /\ files = {}
    /\ stack = <<>>
    /\ status = "init"
    /\ fetched = <<>>
    /\ saved = <<>>
    /\ abandoned = <<>>

InitLive ==
    /\ \E d \in 0..MaxDepth, w \in SiteWebs : Crawler(d, Output, R, w)
    /\ EIdle /\ NIdle /\ LIdle

\* base folders: "output", "o/", and two long ones
BaseFolders == {Output, <<"o", "/">>, Rep("o", LongBase), Rep("o", HugeBase)}

InitPath ==
    /\ \E d \in 0..MaxDepth, b \in BaseFolders, w \in SiteWebs :
          /\ w.hrefs[R] # <<>> /\ w.hrefs[B] = <<>>
          /\ Crawler(d, b, R, w)
    /\ EIdle /\ NIdle /\ LIdle

\* the crawler before it is constructed, while another program is looked at
CIdle == Crawler(0, Output, R, WebOf({}, {}, A, <<>>, <<>>, <<>>))

\* blocks of a page: a field item whose only link sits in a nav, a field item
\* with a plain link, a content block with a link in its footer, an empty one
F1 == Block(<<HrefToB>>, {1})
F2 == Block(<<HrefToA>>, {})
C1 == Block(<<HrefToA, HrefToB>>, {2})
C2 == Block(<<>>, {})

\* webs whose root page has a <main> or not, noise inside it, and field items
\* and content blocks in several orders
RegionWebs ==
    { [WebOf(f, nm, A, <<HrefToA, HrefToB>>, ha, <<>>)
          EXCEPT !.noise[R] = nz, !.field_item[R] = fi, !.content_block[R] = cb] :
        f \in {{}, {A}}, nm \in {{}, {R}, {A}, {R, A}}, ha \in {<<>>, <<HrefToB>>},
        nz \in {{}, {1}, {1, 2}}, fi \in {<<>>, <<F1>>, <<F1, F2>>, <<F2, F1>>},
        cb \in {<<>>, <<C1>>, <<C2, C1>>} }

\* webs in which a page can be reached along several chains of links
ReachWebs ==
    { WebOf(f, nm, A, hr, ha, hb) :
        f \in {{}, {A}}, nm \in {{}, {A}},
        hr \in SeqsUpTo(MaxLinks, {HrefToA, HrefToB}), ha \in {<<>>, <<HrefToB>>},
        hb \in {<<>>, <<HrefToC>>, <<HrefToC, HrefToA>>} }

InitSite ==
    /\ \E d \in 0..MaxDepth, w \in RegionWebs \cup ReachWebs : Crawler(d, Output, R, w)
    /\ EIdle /\ NIdle /\ LIdle

\* a call of fetch_and_save(url, depth, parent_folder) that has not fetched yet
Call(url, depth, parent_folder) ==
    [pc |-> "call", url |-> url, depth |-> depth, parent_folder |-> parent_folder,
     final_url |-> None, hash_prefix |-> None, links |-> <<>>, i |-> 1]

Top == stack[Len(stack)]
Pop == SubSeq(stack, 1, Len(stack) - 1)

RequestUrl_Raw(url) == url

\* line 44: the URL handed to requests.get
RequestUrl(url) == _normalize_url(url)

\* resp.url: where the redirects ended; a URL the web does not redirect is
\* answered under the URL requested
Respond(u) == IF u \in DOMAIN web.resp_url THEN web.resp_url[u] ELSE u

\* line 54
FinalUrl(url) == _normalize_url(Respond(RequestUrl(url)))

FollowLinks_OffByOne(depth) == depth <= max_depth

\* line 133
FollowLinks(depth) == depth < max_depth

InCall == status = "running" /\ stack # <<>> /\ Top.pc = "call"
InLoop == status = "running" /\ stack # <<>> /\ Top.pc = "loop"

\* the request of the call on top of the stack, as the history records it
Request == [url |-> RequestUrl(Top.url), task |-> Top.url, depth |-> Top.depth]

\* the links the loops of the frames st have not reached yet
RECURSIVE Remaining(_)
Remaining(st) ==
    IF st = <<>> THEN <<>>
    ELSE LET fr == st[Len(st)]
         IN  Remaining(SubSeq(st, 1, Len(st) - 1))
                \o (IF fr.depth < max_depth THEN SubSeq(fr.links, fr.i, Len(fr.links))
                    ELSE <<>>)

----------------------------------------------------------------------------
(* Operations *)

\* main(): extractor.fetch_and_save(args.url)
Main ==
    /\ status = "init"
    /\ status' = "running"
    /\ stack' = <<Call(root_url, 0, None)>>
    /\ UNCHANGED <<max_depth, base_folder, visited_urls, root_url, web, files,
                   fetched, saved, abandoned>>
    /\ UNCHANGED <<evars, nvars, lvars>>

\* lines 42-52: the request fails, the call returns
FetchFailed ==
    /\ InCall
    /\ RequestUrl(Top.url) \in web.fail
    /\ fetched' = Append(fetched, Request)
    /\ stack' = Pop
    /\ UNCHANGED <<max_depth, base_folder, visited_urls, root_url, web, files,
                   status, saved, abandoned>>
    /\ UNCHANGED <<evars, nvars, lvars>>

SkipVisited_BeforeRequest ==
    /\ InCall
    /\ Top.url \in visited_urls
    /\ stack' = Pop
    /\ UNCHANGED <<max_depth, base_folder, visited_urls, root_url, web, files,
                   status, fetched, saved, abandoned>>
    /\ UNCHANGED <<evars, nvars, lvars>>

\* lines 54-59: the final URL was visited already, the call returns
SkipVisited ==
    /\ InCall
    /\ RequestUrl(Top.url) \notin web.fail
    /\ FinalUrl(Top.url) \in visited_urls
    /\ fetched' = Append(fetched, Request)
    /\ stack' = Pop
    /\ UNCHANGED <<max_depth, base_folder, visited_urls, root_url, web, files,
                   status, saved, abandoned>>
    /\ UNCHANGED <<evars, nvars, lvars>>

NoMainContent_MarksVisited ==
    /\ InCall
    /\ RequestUrl(Top.url) \notin web.fail
    /\ FinalUrl(Top.url) \notin visited_urls
    /\ main_content(web, FinalUrl(Top.url)).by = "none"
    /\ fetched' = Append(fetched, Request)
    /\ visited_urls' = visited_urls \cup {FinalUrl(Top.url)}
    /\ stack' = Pop
    /\ UNCHANGED <<max_depth, base_folder, root_url, web, files,
                   status, saved, abandoned>>
    /\ UNCHANGED <<evars, nvars, lvars>>

\* lines 61-73: no content region, the call returns
NoMainContent ==
    /\ InCall
    /\ RequestUrl(Top.url) \notin web.fail
    /\ FinalUrl(Top.url) \notin visited_urls
    /\ main_content(web, FinalUrl(Top.url)).by = "none"
    /\ fetched' = Append(fetched, Request)
    /\ stack' = Pop
    /\ UNCHANGED <<max_depth, base_folder, visited_urls, root_url, web, files,
                   status, saved, abandoned>>
    /\ UNCHANGED <<evars, nvars, lvars>>

CanSave_NoVisitedCheck ==
    /\ InCall
    /\ RequestUrl(Top.url) \notin web.fail
    /\ main_content(web, FinalUrl(Top.url)).by # "none"

\* the response passed lines 42-73: fetched, not visited, content region found
CanSave ==
    /\ InCall
    /\ RequestUrl(Top.url) \notin web.fail
    /\ FinalUrl(Top.url) \notin visited_urls
    /\ main_content(web, FinalUrl(Top.url)).by # "none"

\* lines 75-130: the links are extracted, the document is written and the final
\* URL is marked visited; the call is then at the loop of line 133
Save ==
    /\ CanSave
    /\ \E final_url \in {FinalUrl(Top.url)} :
       \E region \in {main_content(web, final_url)} :
       \E links \in {extract_links(link_hrefs(region), final_url)} :
       \E folder \in {FolderOf(base_folder, Top.parent_folder, final_url)} :
       \E filepath \in {FilepathOf(folder, final_url)} :
           /\ files' = {f \in files : f.filepath # filepath}
                          \cup {[filepath |-> filepath, folder |-> folder,
                                 source |-> final_url, region |-> region.by,
                                 markdown |-> markdown(region)]}
           /\ visited_urls' = visited_urls \cup {final_url}
           /\ saved' = Append(saved, final_url)
           /\ stack' = Append(Pop, [Top EXCEPT !.pc = "loop",
                                               !.final_url = final_url,
                                               !.hash_prefix = md5_hex8(final_url),
                                               !.links = links])
    /\ fetched' = Append(fetched, Request)
    /\ UNCHANGED <<max_depth, base_folder, root_url, web, status, abandoned>>
    /\ UNCHANGED <<evars, nvars, lvars>>

\* lines 110, 122-125: os.makedirs, open or write raises OSError; nothing in
\* fetch_and_save or main catches it, so every frame is unwound (a file the
\* failed write may leave behind is not counted as a document)
SaveFailed ==
    /\ CanSave
    /\ fetched' = Append(fetched, Request)
    /\ abandoned' = Remaining(Pop)
    /\ stack' = <<>>
    /\ status' = "crashed"
    /\ UNCHANGED <<max_depth, base_folder, visited_urls, root_url, web, files, saved>>
    /\ UNCHANGED <<evars, nvars, lvars>>

Recurse_PassesParentPath ==
    /\ InLoop
    /\ FollowLinks(Top.depth)
    /\ Top.i <= Len(Top.links)
    /\ stack' = Append(Append(Pop, [Top EXCEPT !.i = Top.i + 1]),
                       Call(Top.links[Top.i], Top.depth + 1,
                            IF Top.parent_folder = None THEN Top.hash_prefix
                            ELSE path_join(Top.parent_folder, Top.hash_prefix)))
    /\ UNCHANGED <<max_depth, base_folder, visited_urls, root_url, web, files,
                   status, fetched, saved, abandoned>>
    /\ UNCHANGED <<evars, nvars, lvars>>

Recurse_SkipsOne ==
    /\ InLoop
    /\ FollowLinks(Top.depth)
    /\ Top.i <= Len(Top.links)
    /\ stack' = Append(Append(Pop, [Top EXCEPT !.i = Top.i + 2]),
                       Call(Top.links[Top.i], Top.depth + 1, Top.hash_prefix))
    /\ UNCHANGED <<max_depth, base_folder, visited_urls, root_url, web, files,
                   status, fetched, saved, abandoned>>
    /\ UNCHANGED <<evars, nvars, lvars>>

\* lines 133-135: the next link is handed to a recursive call
Recurse ==
    /\ InLoop
    /\ FollowLinks(Top.depth)
    /\ Top.i <= Len(Top.links)
    /\ stack' = Append(Append(Pop, [Top EXCEPT !.i = Top.i + 1]),
                       Call(Top.links[Top.i], Top.depth + 1, Top.hash_prefix))
    /\ UNCHANGED <<max_depth, base_folder, visited_urls, root_url, web, files,
                   status, fetched, saved, abandoned>>
    /\ UNCHANGED <<evars, nvars, lvars>>

Return_KeepsFrame ==
    /\ InLoop
    /\ ~FollowLinks(Top.depth) \/ Top.i > Len(Top.links)
    /\ UNCHANGED vars

\* the loop is over, or line 133 did not enter it: fetch_and_save returns
Return ==
    /\ InLoop
    /\ ~FollowLinks(Top.depth) \/ Top.i > Len(Top.links)
    /\ stack' = Pop
    /\ UNCHANGED <<max_depth, base_folder, visited_urls, root_url, web, files,
                   status, fetched, saved, abandoned>>
    /\ UNCHANGED <<evars, nvars, lvars>>

\* the outermost call has returned: main() returns
Finish ==
    /\ status = "running"
    /\ stack = <<>>
    /\ status' = "done"
    /\ UNCHANGED <<max_depth, base_folder, visited_urls, root_url, web, files,
                   stack, fetched, saved, abandoned>>
    /\ UNCHANGED <<evars, nvars, lvars>>

Next ==
    \/ Main
    \/ FetchFailed
    \/ SkipVisited
    \/ NoMainContent
    \/ Save
    \/ SaveFailed
    \/ Recurse
    \/ Return
    \/ Finish

Spec == Init /\ [][Next]_vars

\* every call blocks until its step is taken: the single thread always runs on
LiveSpec == InitLive /\ [][Next]_vars /\ WF_vars(Next)

\* the crawler constructed with base folders of several lengths
SpecPath == InitPath /\ [][Next]_vars

\* the crawler on pages with several candidate regions and on sites with
\* several chains of links to a page
SpecSite == InitSite /\ [][Next]_vars

----------------------------------------------------------------------------
(* _normalize_url as a function of its own: applied to a URL, then to its result *)

\* http(s) URLs of host h: a path that is empty or starts with "/", made of
\* segments, slashes and ";", with or without a query and a fragment
NormUrls ==
    { Url("h", path, q, f) :
        path \in {t \in SeqsUpTo(MaxPath, {"/", "a", ";"}) : t = <<>> \/ Head(t) = "/"},
        q \in {<<>>, <<"q">>}, f \in {<<>>, <<"f">>} }

NormInit ==
    /\ norm_in \in NormUrls
    /\ norm_out = <<>>
    /\ CIdle /\ EIdle /\ LIdle

\* self._normalize_url(u), for u the argument and then for u the last result
Normalize ==
    /\ Len(norm_out) < 2
    /\ norm_out' = Append(norm_out, _normalize_url(IF norm_out = <<>> THEN norm_in
                                                   ELSE norm_out[Len(norm_out)]))
    /\ UNCHANGED <<cvars, evars, norm_in, lvars>>

NormNext == Normalize

NormSpec == NormInit /\ [][NormNext]_vars

----------------------------------------------------------------------------
(* The eCFR downloader: main() of eCFRconAPI.py and its quit thread *)

\* what salida_completa.xml holds: the two header lines, one block per section
\* appended, the closing line
XmlDecl == [tag |-> "?xml", id |-> 0]
DocOpen == [tag |-> "document", id |-> 0]
DocClose == [tag |-> "/document", id |-> 0]
Section(identifier) == [tag |-> "section", id |-> identifier]

\* the entry number k of data["content_versions"]; its identifier stands for
\* "<part>.<k>"
Entry(k) == [identifier |-> k]

\* seq[:n] of Python
Slice(seq, n) ==
    IF n >= 0 THEN SubSeq(seq, 1, IF n < Len(seq) THEN n ELSE Len(seq))
    ELSE SubSeq(seq, 1, Len(seq) + n)

\* "if args.max:": None and 0 are false
Truthy(m) == m.given /\ m.n # 0

EInit ==
    /\ max_arg \in {NoMax} \cup {MaxOf(n) : n \in (0 - 1)..(MaxEntries + 1)}
    /\ \E n \in 0..MaxEntries : listing = [k \in 1..n |-> Entry(k)]
    /\ failing \in SUBSET (1..MaxEntries)
    /\ entries = <<>>
    /\ idx = 0
    /\ stop_after = FALSE
    /\ e_pc = "idle"
    /\ quit_pc = "none"
    /\ out = <<>>
    /\ requests = <<>>
    /\ CIdle /\ NIdle /\ LIdle

\* lines 62-91: the arguments are parsed, an old file is removed and the header
\* is written
StartMain ==
    /\ e_pc = "idle"
    /\ out' = <<XmlDecl, DocOpen>>
    /\ e_pc' = "listing"
    /\ UNCHANGED <<max_arg, listing, failing, entries, idx, stop_after, quit_pc, requests>>
    /\ UNCHANGED <<cvars, nvars, lvars>>

\* lines 94-95: fetch_ecfr_json raises, and so does main
ListingFailed ==
    /\ e_pc = "listing"
    /\ e_pc' = "raised"
    /\ UNCHANGED <<max_arg, listing, failing, entries, idx, stop_after, quit_pc, out,
                   requests>>
    /\ UNCHANGED <<cvars, nvars, lvars>>

\* lines 96-100: the listing is empty, main returns
NoEntries ==
    /\ e_pc = "listing"
    /\ listing = <<>>
    /\ entries' = listing
    /\ e_pc' = "returned"
    /\ UNCHANGED <<max_arg, listing, failing, idx, stop_after, quit_pc, out, requests>>
    /\ UNCHANGED <<cvars, nvars, lvars>>

\* lines 96-118: the entries are limited and the quit thread is started; main is
\* at the head of the loop
StartLoop ==
    /\ e_pc = "listing"
    /\ listing # <<>>
    /\ entries' = IF Truthy(max_arg) THEN Slice(listing, max_arg.n) ELSE listing
    /\ quit_pc' = "waiting"
    /\ idx' = 1
    /\ e_pc' = "check"
    /\ UNCHANGED <<max_arg, listing, failing, stop_after, out, requests>>
    /\ UNCHANGED <<cvars, nvars, lvars>>

\* check_quit, lines 112-116: keyboard.wait returns and the flag is set, at any
\* moment while main runs
PressQ ==
    /\ quit_pc = "waiting"
    /\ e_pc \notin {"returned", "raised"}
    /\ stop_after' = TRUE
    /\ quit_pc' = "done"
    /\ UNCHANGED <<max_arg, listing, failing, entries, idx, e_pc, out, requests>>
    /\ UNCHANGED <<cvars, nvars, lvars>>

\* line 122: the entries are exhausted
LoopDone ==
    /\ e_pc = "check"
    /\ idx > Len(entries)
    /\ e_pc' = "finally"
    /\ UNCHANGED <<max_arg, listing, failing, entries, idx, stop_after, quit_pc, out,
                   requests>>
    /\ UNCHANGED <<cvars, nvars, lvars>>

\* lines 123-125: the flag is set, break
StopCheck ==
    /\ e_pc = "check"
    /\ idx <= Len(entries)
    /\ stop_after
    /\ e_pc' = "finally"
    /\ UNCHANGED <<max_arg, listing, failing, entries, idx, stop_after, quit_pc, out,
                   requests>>
    /\ UNCHANGED <<cvars, nvars, lvars>>

PassCheck_IgnoresStop ==
    /\ e_pc = "check"
    /\ idx <= Len(entries)
    /\ e_pc' = "request"
    /\ UNCHANGED <<max_arg, listing, failing, entries, idx, stop_after, quit_pc, out,
                   requests>>
    /\ UNCHANGED <<cvars, nvars, lvars>>

\* lines 123-130: the flag is not set, the iteration goes on to its request
PassCheck ==
    /\ e_pc = "check"
    /\ idx <= Len(entries)
    /\ ~stop_after
    /\ e_pc' = "request"
    /\ UNCHANGED <<max_arg, listing, failing, entries, idx, stop_after, quit_pc, out,
                   requests>>
    /\ UNCHANGED <<cvars, nvars, lvars>>

\* lines 133, 44: requests.get is called for the section; the history records
\* the value the flag has at that moment
StartRequest ==
    /\ e_pc = "request"
    /\ requests' = Append(requests, [identifier |-> entries[idx].identifier,
                                      stop |-> stop_after])
    /\ e_pc' = "fetching"
    /\ UNCHANGED <<max_arg, listing, failing, entries, idx, stop_after, quit_pc, out>>
    /\ UNCHANGED <<cvars, nvars, lvars>>

\* lines 133-135: the text arrives and append_xml writes the block
FetchOk ==
    /\ e_pc = "fetching"
    /\ entries[idx].identifier \notin failing
    /\ out' = Append(out, Section(entries[idx].identifier))
    /\ idx' = idx + 1
    /\ e_pc' = "check"
    /\ UNCHANGED <<max_arg, listing, failing, entries, stop_after, quit_pc, requests>>
    /\ UNCHANGED <<cvars, nvars, lvars>>

FetchError_Breaks ==
    /\ e_pc = "fetching"
    /\ entries[idx].identifier \in failing
    /\ e_pc' = "finally"
    /\ UNCHANGED <<max_arg, listing, failing, entries, idx, stop_after, quit_pc, out,
                   requests>>
    /\ UNCHANGED <<cvars, nvars, lvars>>

\* lines 133, 136-137: fetch_full_text raises, the exception is caught and the
\* loop goes on
FetchError ==
    /\ e_pc = "fetching"
    /\ entries[idx].identifier \in failing
    /\ idx' = idx + 1
    /\ e_pc' = "check"
    /\ UNCHANGED <<max_arg, listing, failing, entries, stop_after, quit_pc, out, requests>>
    /\ UNCHANGED <<cvars, nvars, lvars>>

\* lines 140-144: the closing line is appended, main returns
Finally ==
    /\ e_pc = "finally"
    /\ out' = Append(out, DocClose)
    /\ e_pc' = "returned"
    /\ UNCHANGED <<max_arg, listing, failing, entries, idx, stop_after, quit_pc, requests>>
    /\ UNCHANGED <<cvars, nvars, lvars>>

ENext ==
    \/ StartMain
    \/ ListingFailed
    \/ NoEntries
    \/ StartLoop
    \/ PressQ
    \/ LoopDone
    \/ StopCheck
    \/ PassCheck
    \/ StartRequest
    \/ FetchOk
    \/ FetchError
    \/ Finally

ESpec == EInit /\ [][ENext]_vars

----------------------------------------------------------------------------
(* indentar_html_listas of xml2md.py: the loop over the paragraphs *)

\* the characters [a-z0-9A-Z] of the texts of the model
Alnum == {"a", "i", "A", "1"}

\* the number of characters of Alnum at the head of t
RECURSIVE Run(_)
Run(t) == IF t # <<>> /\ Head(t) \in Alnum THEN 1 + Run(Tail(t)) ELSE 0

\* m = regex.match(txt) for r'^\(([a-z0-9A-Z]+)\)\s*(.*)': the label, or <<>>
\* when there is no match (a label that matches has one character or more)
MatchLabel(t) ==
    LET n == Run(SubSeq(t, 2, Len(t)))
    IN  IF Len(t) >= n + 2 /\ t[1] = "(" /\ n >= 1 /\ t[n + 2] = ")"
        THEN SubSeq(t, 2, n + 1) ELSE <<>>

\* the texts a <p> holds: "(a) x", "(ii)", " (1A1)x", "x", "(a-i)", "(a", ""
Texts ==
    { <<"(", "a", ")", " ", "x">>, <<"(", "i", "i", ")">>,
      <<" ", "(", "1", "A", "1", ")", "x">>, <<"x">>,
      <<"(", "a", "-", "i", ")">>, <<"(", "a">>, <<>> }

\* p.get_text(strip=True) of the paragraph k: its strings, each stripped, and
\* after them those of the paragraph inside it
get_text(k) ==
    Strip(paragraphs[k], " ")
        \o (IF nested = k + 1 THEN Strip(paragraphs[k + 1], " ") ELSE <<>>)

\* lines 20-26: the document is parsed, the stack is empty, the loop begins
LInit ==
    /\ paragraphs \in SeqsUpTo(MaxParagraphs, Texts)
    /\ nested \in {0} \cup 2..Len(paragraphs)
    /\ p_idx = 1
    /\ ul_stack = <<>>
    /\ uls = <<>>
    /\ removed = {}
    /\ l_pc = "loop"
    /\ CIdle /\ EIdle /\ NIdle

InLoopOver == l_pc = "loop" /\ p_idx <= Len(paragraphs)

\* lines 33-37: no marker, every open list is closed
NoMarker ==
    /\ InLoopOver
    /\ p_idx \notin removed
    /\ MatchLabel(get_text(p_idx)) = <<>>
    /\ ul_stack' = <<>>
    /\ p_idx' = p_idx + 1
    /\ UNCHANGED <<paragraphs, nested, uls, removed, l_pc>>
    /\ UNCHANGED <<cvars, evars, nvars>>

CloseDeeper_KeepsAll(st, nivel) == st

\* lines 44-46: while len(stack) > nivel: stack.pop()
CloseDeeper(st, nivel) == SubSeq(st, 1, IF Len(st) > nivel THEN nivel ELSE Len(st))

\* lines 48-55: the <ul> elements created to reach nivel above the kept ones;
\* the first is inserted before the paragraph k when no list is open, every
\* other is appended to the one below it
NewLists(kept, nivel, k, first) ==
    [j \in 1..(nivel - Len(kept)) |->
        [parent |-> IF Len(kept) + j = 1 THEN 0
                    ELSE IF j = 1 THEN kept[Len(kept)] ELSE first + j - 2,
         before |-> IF Len(kept) + j = 1 THEN k ELSE 0,
         items |-> IF Len(kept) + j < nivel THEN <<<<"ul", first + j>>>> ELSE <<>>]]

\* lines 39-61: a marker; lists are closed or opened until the stack has
\* len(label) of them, the item is appended to the last, the paragraph (and
\* what is inside it) is destroyed
Marked ==
    /\ InLoopOver
    /\ p_idx \notin removed
    /\ \E label \in {MatchLabel(get_text(p_idx))} :
       \E kept \in {CloseDeeper(ul_stack, Len(label))} :
       \E fresh \in {NewLists(kept, Len(label), p_idx, Len(uls) + 1)} :
           /\ label # <<>>
           /\ ul_stack' = kept \o [j \in 1..Len(fresh) |-> Len(uls) + j]
           /\ uls' = [n \in 1..(Len(uls) + Len(fresh)) |->
                         LET ul == IF n <= Len(uls) THEN uls[n] ELSE fresh[n - Len(uls)]
                             grown == IF kept # <<>> /\ fresh # <<>> /\ n = kept[Len(kept)]
                                      THEN Append(ul.items, <<"ul", Len(uls) + 1>>)
                                      ELSE ul.items
                         IN  [ul EXCEPT !.items =
                                 IF n = ul_stack'[Len(label)]
                                 THEN Append(grown, <<"li", p_idx>>) ELSE grown]]
    /\ removed' = removed \cup {p_idx} \cup (IF nested = p_idx + 1 THEN {p_idx + 1} ELSE {})
    /\ p_idx' = p_idx + 1
    /\ UNCHANGED <<paragraphs, nested, l_pc>>
    /\ UNCHANGED <<cvars, evars, nvars>>

\* line 30 for a paragraph that line 61 destroyed with the paragraph around
\* it: the element has no content left, its text is empty and line 35 runs
DestroyedNoText ==
    /\ InLoopOver
    /\ p_idx \in removed
    /\ ul_stack' = <<>>
    /\ p_idx' = p_idx + 1
    /\ UNCHANGED <<paragraphs, nested, uls, removed, l_pc>>
    /\ UNCHANGED <<cvars, evars, nvars>>

\* line 30 for such a paragraph, when the parser library raises on the use of
\* a destroyed element: the function raises
DestroyedRaises ==
    /\ InLoopOver
    /\ p_idx \in removed
    /\ l_pc' = "raised"
    /\ UNCHANGED <<paragraphs, nested, p_idx, ul_stack, uls, removed>>
    /\ UNCHANGED <<cvars, evars, nvars>>

\* line 63: return str(soup)
ReturnHtml ==
    /\ l_pc = "loop"
    /\ p_idx > Len(paragraphs)
    /\ l_pc' = "returned"
    /\ UNCHANGED <<paragraphs, nested, p_idx, ul_stack, uls, removed>>
    /\ UNCHANGED <<cvars, evars, nvars>>

LNext ==
    \/ NoMarker
    \/ Marked
    \/ DestroyedNoText
    \/ DestroyedRaises
    \/ ReturnHtml

ListSpec == LInit /\ [][LNext]_vars

----------------------------------------------------------------------------
(* Properties *)

Range(q) == {q[i] : i \in DOMAIN q}
NoDuplicates(q) == \A i, j \in DOMAIN q : q[i] = q[j] => i = j
Sources == {f.source : f \in files}
FinalOf(u) == _normalize_url(Respond(u))

\* C1: within one run every final (post-redirect) URL is written at most once:
\* the history of writes holds no URL twice, no two files record the same
\* source, and a step that writes a document writes it for a final URL that
\* was not in visited_urls.
C1_PersistedAtMostOnce ==
    [][/\ NoDuplicates(saved') /\ \A f, g \in files' : f.source = g.source => f = g
       /\ saved' # saved => saved'[Len(saved')] \notin visited_urls]_vars

\* C1 witness: two distinct requests were answered with the same final URL (a
\* redirect onto a page that is also linked directly) and it was written once.
C1_Witness ==
    \E i, j \in DOMAIN fetched :
        /\ fetched[i].url # fetched[j].url
        /\ fetched[i].url \notin web.fail /\ fetched[j].url \notin web.fail
        /\ FinalOf(fetched[i].url) = FinalOf(fetched[j].url)
        /\ FinalOf(fetched[i].url) \in Range(saved)

\* the call on top of the stack was handed a link that is in visited_urls
VisitedLinkConsumed == InCall /\ Top.depth > 0 /\ Top.url \in visited_urls

\* C2 (as claimed): a link that is in visited_urls when it is consumed is not
\* fetched again: the call made for it issues no request.
C2_NotRefetched == [][VisitedLinkConsumed => fetched' = fetched]_vars

\* C2 (amended): the call made for a link that is in visited_urls does issue the
\* request; when the final URL of the response is in visited_urls the call
\* returns without writing a file, touching visited_urls or following a link.
C2_RefetchedNotSaved ==
    [][VisitedLinkConsumed =>
          /\ fetched' = Append(fetched, Request)
          /\ FinalUrl(Top.url) \in visited_urls =>
                /\ files' = files /\ saved' = saved /\ visited_urls' = visited_urls
                /\ stack' = Pop]_vars

\* C2 witness: a visited link has been fetched again and its call has returned.
C2_Witness ==
    \E i \in DOMAIN fetched, j \in DOMAIN saved :
        /\ fetched[i].depth > 0 /\ fetched[i].url = saved[j]
        /\ \E k \in DOMAIN fetched : k < i /\ fetched[k].url \notin web.fail
                                     /\ FinalOf(fetched[k].url) = saved[j]
                                     /\ FinalOf(fetched[k].url) \in web.main
        /\ Len(fetched) > Len(saved) /\ status = "done"

\* C3: no call is started and no request is issued at a depth greater than
\* max_depth.
C3_DepthBound ==
    /\ \A k \in DOMAIN stack : stack[k].depth <= max_depth
    /\ \A i \in DOMAIN fetched : fetched[i].depth <= max_depth

\* C3 witness: with max_depth = 1 a page at depth 1 had links, and the crawl
\* finished without a request for any of them.
C3_Witness ==
    /\ status = "done" /\ max_depth = 1 /\ root_url = R
    /\ web.hrefs[A] = <<HrefToB>> /\ A \in Range(saved)
    /\ \A i \in DOMAIN fetched : fetched[i].url # B

\* the crawl is over: no call is left, main has returned or the process has
\* ended with an uncaught exception
Terminated == stack = <<>> /\ status \in {"done", "crashed"}

\* C4: the crawl started from the initial task terminates, whatever the link
\* graph (cycles included), the failing pages and max_depth.
C4_Terminates == <>Terminated

\* C4 witness: a crawl over a cyclic link graph (A links to B, B links to A)
\* with a failing-free web has returned.
C4_Witness ==
    /\ status = "done" /\ max_depth = MaxDepth
    /\ web.hrefs[A] = <<HrefToB>> /\ web.hrefs[B] = <<HrefToA>>
    /\ {A, B} \subseteq Range(saved)

\* C5 (as claimed): an error while one page is processed ends that call alone:
\* no link of an ancestor call is left unprocessed.
C5_NoLinkAbandoned == abandoned = <<>> /\ status # "crashed"

\* C6: every member of visited_urls is the source of a written document;
\* visited_urls grows only in the step that writes the document of the URL
\* added; a call that returns early leaves visited_urls and the files alone.
C6_VisitedOnlyAfterPersist ==
    [][/\ visited_urls' \subseteq {f.source : f \in files'}
       /\ visited_urls' # visited_urls =>
             /\ saved' = Append(saved, FinalUrl(Top.url))
             /\ visited_urls' = visited_urls \cup {FinalUrl(Top.url)}
             /\ \E f \in files' : f.source = FinalUrl(Top.url) /\ f \notin files
       /\ (InCall /\ stack' = Pop) => visited_urls' = visited_urls /\ files' = files]_vars

\* C6 witness: a failed request and a page without content region have both
\* ended their calls in a run that also wrote documents.
C6_Witness ==
    /\ visited_urls # {}
    /\ \E i \in DOMAIN fetched : fetched[i].url \in web.fail
    /\ \E i \in DOMAIN fetched : /\ fetched[i].url \notin web.fail
                                 /\ FinalOf(fetched[i].url) \notin web.main
    /\ Len(fetched) >= Len(saved) + 2

\* C7 (as claimed): the request is issued to the URL of the task as given.
C7_FetchesRawUrl == \A i \in DOMAIN fetched : fetched[i].url = fetched[i].task

\* C7 (amended): the request is issued to the output of URL normalization for
\* the URL of the task: the same host, no query, no fragment, no trailing slash
\* and a path that is the beginning of the task's path; it is the URL as given
\* only when that URL carries nothing normalization removes.
C7_FetchesNormalizedUrl ==
    \A i \in DOMAIN fetched :
        LET e == fetched[i]
        IN  /\ e.url.query = <<>> /\ e.url.fragment = <<>>
            /\ e.url.path = <<>> \/ e.url.path[Len(e.url.path)] # "/"
            /\ e.url.netloc = e.task.netloc
            /\ Len(e.url.path) <= Len(e.task.path)
            /\ e.url.path = SubSeq(e.task.path, 1, Len(e.url.path))
            /\ e.url = e.task <=>
                  /\ e.task.query = <<>> /\ e.task.fragment = <<>>
                  /\ e.task.path = <<>> \/ e.task.path[Len(e.task.path)] # "/"
                  /\ e.task.path = DropParams(e.task.path)

\* C7 witness: the root task was given a URL with a trailing slash, a query and
\* a fragment, and its request has been issued.
C7_Witness == \E i \in DOMAIN fetched : fetched[i].task = RawRoot

\* C8 (as claimed): every document is written under a path of at most 240
\* characters.
C8_PathWithinLimit == \A f \in files : Len(f.filepath) <= PathLimit

\* C9: every extracted link has the netloc of the page's final URL, differs
\* from that final URL and carries no query and no fragment (so it is no
\* fragment and not empty); every child call is made for such a link.
C9_LinksInDomainNotSelf ==
    \A k \in DOMAIN stack :
        /\ stack[k].pc = "loop" =>
              \A n \in DOMAIN stack[k].links :
                  LET l == stack[k].links[n]
                  IN  /\ l.netloc = stack[k].final_url.netloc
                      /\ l # stack[k].final_url
                      /\ l.query = <<>> /\ l.fragment = <<>>
        /\ k > 1 => /\ stack[k].url.netloc = stack[k - 1].final_url.netloc
                    /\ stack[k].url # stack[k - 1].final_url

\* C9 witness: a page whose region holds an empty href, a fragment, a self href
\* and a same-domain href has had its links extracted and the one link
\* followed, below a root page whose region holds a cross-domain href.
C9_Witness ==
    /\ Len(stack) > 1
    /\ stack[Len(stack) - 1].final_url = A
    /\ web.hrefs[A] = <<HrefEmpty, HrefFrag, HrefQuery, HrefToB>>
    /\ stack[Len(stack) - 1].links = <<B>>
    /\ stack[1].final_url = R /\ HrefToX \in Range(web.hrefs[R])

\* the scenario of C10: the root page is fetched and has a content region, and
\* its links have pairwise distinct final URLs, none the root's, all fetched
\* with a content region
RootFinal == FinalOf(_normalize_url(root_url))
RootLinks == extract_links(web.hrefs[RootFinal], RootFinal)
ChildFinals == [n \in DOMAIN RootLinks |-> FinalUrl(RootLinks[n])]
RoundTrip ==
    /\ max_depth = 1
    /\ _normalize_url(root_url) \notin web.fail /\ RootFinal \in web.main
    /\ NoDuplicates(ChildFinals)
    /\ \A n \in DOMAIN RootLinks :
          /\ RequestUrl(RootLinks[n]) \notin web.fail
          /\ ChildFinals[n] \in web.main /\ ChildFinals[n] # RootFinal

\* C10: when main has returned in that scenario with k links, exactly k + 1
\* documents exist, their sources are the final URLs of the root and of the
\* children, the root's folder is base/digest8(root) and each child's folder
\* is base/digest8(root)/digest8(child).
C10_RoundTrip ==
    (status = "done" /\ RoundTrip) =>
        /\ Cardinality(files) = Len(RootLinks) + 1
        /\ Sources = {RootFinal} \cup Range(ChildFinals)
        /\ \A f \in files :
              f.folder = IF f.source = RootFinal
                         THEN path_join(base_folder, md5_hex8(RootFinal))
                         ELSE path_join(path_join(base_folder, md5_hex8(RootFinal)),
                                        md5_hex8(f.source))

\* C10 witness: the scenario with two children, one of them reached through a
\* redirect, has finished.
C10_Witness ==
    /\ status = "done" /\ RoundTrip /\ Len(RootLinks) = 2
    /\ \E n \in DOMAIN RootLinks : ChildFinals[n] # RootLinks[n]

\* the number of "/" in s after its first n characters
Levels(s, n) == Cardinality({i \in (n + 1)..Len(s) : s[i] = "/"})

\* the document the step has written for src, when src is the URL just saved
Written(src) == CHOOSE f \in files' : f.source = src

\* C11: every document is written to base/[parentToken/]digest8(finalURL)/filename:
\* the parent token is absent exactly for the depth-0 task and is otherwise the
\* digest8 of the final URL of the task that extracted the link, so the folder
\* is one level below the base folder at depth 0 and two levels below it at
\* every other depth.
C11_FolderLayout ==
    [][Len(saved') = Len(saved) + 1 =>
        LET src == saved'[Len(saved')]
            f == Written(src)
            d8 == md5_hex8(src)
            name == SubSeq(f.filepath, Len(f.folder) + 2, Len(f.filepath))
        IN  /\ src = FinalUrl(Top.url)
            /\ Top.depth = 0 <=> Len(stack) = 1
            /\ Top.depth = 0 =>
                    f.folder = base_folder \o <<"/">> \o d8
            /\ Top.depth > 0 =>
                    f.folder = base_folder \o <<"/">>
                                   \o md5_hex8(stack[Len(stack) - 1].final_url)
                                   \o <<"/">> \o d8
            /\ Levels(f.folder, Len(base_folder)) = (IF Top.depth = 0 THEN 1 ELSE 2)
            /\ f.filepath = f.folder \o <<"/">> \o name
            /\ name # <<>> /\ \A i \in 1..Len(name) : name[i] # "/"
    ]_vars

\* a document saved at depth 2, below the folder token of its depth-1 parent
C11_Witness ==
    /\ Len(stack) = 3 /\ Top.pc = "loop" /\ Top.depth = 2
    /\ stack[1].final_url # stack[2].final_url
    /\ \E f \in files :
           /\ f.source = Top.final_url
           /\ f.folder = base_folder \o <<"/">> \o md5_hex8(stack[2].final_url)
                              \o <<"/">> \o md5_hex8(Top.final_url)

\* the tasks of the requests of depth d in the history h, in order
RECURSIVE TasksAt(_, _)
TasksAt(h, d) ==
    IF h = <<>> THEN <<>>
    ELSE (IF Head(h).depth = d THEN <<Head(h).task>> ELSE <<>>) \o TasksAt(Tail(h), d)

\* the position of the last request of depth d in the history h (0: none)
RECURSIVE LastAt(_, _)
LastAt(h, d) ==
    IF h = <<>> THEN 0
    ELSE IF h[Len(h)].depth = d THEN Len(h)
    ELSE LastAt(SubSeq(h, 1, Len(h) - 1), d)

\* the frame k of the stack st waits in its loop for the call it made, and the
\* requests its children have issued are its links, in order, up to that call
FrameInOrder(st, h, k) ==
    LET fr == st[k]
        own == LastAt(h, fr.depth)
        issued == TasksAt(SubSeq(h, own + 1, Len(h)), fr.depth + 1)
        handed == IF k < Len(st) /\ st[k + 1].pc = "call" THEN fr.i - 2 ELSE fr.i - 1
    IN  /\ own > 0 /\ h[own].task = fr.url
        /\ issued = SubSeq(fr.links, 1, IF fr.depth < max_depth THEN handed ELSE 0)
        /\ k < Len(st) =>
              /\ fr.pc = "loop" /\ fr.i >= 2
              /\ st[k + 1].url = fr.links[fr.i - 1]
              /\ st[k + 1].depth = fr.depth + 1

\* C12: children are processed depth-first in extraction order: the requests
\* issued for the links [L1, ..., Ln] of a task are issued in that order, each
\* after the call for the link before it and all the calls below that one have
\* returned; a task returns only when the calls for all its links have
\* returned; and only the call on top of the stack can have a fetch in flight.
C12_DepthFirst ==
    [][/\ \A k \in 1..Len(stack') :
             /\ stack'[k].pc = "loop" => FrameInOrder(stack', fetched', k)
             /\ stack'[k].pc = "call" => k = Len(stack')
       /\ Len(fetched') <= Len(fetched) + 1
       /\ Len(fetched') = Len(fetched) + 1 =>
             fetched'[Len(fetched')].task = Top.url /\ Top.pc = "call"
       /\ (Len(stack') < Len(stack) /\ Top.pc = "loop" /\ Top.depth < max_depth
              /\ status' = "running") =>
             /\ Top.i = Len(Top.links) + 1
             /\ TasksAt(SubSeq(fetched, LastAt(fetched, Top.depth) + 1, Len(fetched)),
                         Top.depth + 1) = Top.links
    ]_vars

\* the root has two links; the call for the first made a call of its own before
\* the request for the second was issued
C12_Witness ==
    /\ Len(fetched) >= 4
    /\ fetched[1].depth = 0 /\ fetched[2].depth = 1
    /\ fetched[3].depth = 2 /\ fetched[4].depth = 1
    /\ fetched[2].task # fetched[4].task

\* C13 (as claimed): normalizing the result of a normalization gives that
\* result again, and every result is without query, without fragment and
\* without trailing slash.
C13_Idempotent ==
    /\ Len(norm_out) = 2 => norm_out[2] = norm_out[1]
    /\ \A n \in DOMAIN norm_out :
          /\ norm_out[n].query = <<>> /\ norm_out[n].fragment = <<>>
          /\ norm_out[n].path = <<>> \/ norm_out[n].path[Len(norm_out[n].path)] # "/"

\* the requests started while the flag was set
StartedAfterStop == {i \in DOMAIN requests : requests[i].stop}

\* C14 (as claimed): once stop_after is set no section request is started, and
\* the file of a run that was interrupted ends with the closing line.
C14_NoRequestAfterStop ==
    /\ StartedAfterStop = {}
    /\ (e_pc = "returned" /\ stop_after) => out[Len(out)] = DocClose

\* C14 (amended): once stop_after is set at most one more section request is
\* started, the one of the iteration that had passed the check of the flag
\* before it was set; the loop is left at the next check, and the file of a
\* run that was interrupted ends with the closing line.
C14_AtMostOneAfterStop ==
    /\ Cardinality(StartedAfterStop) <= 1
    /\ \A i \in StartedAfterStop : i = Len(requests)
    /\ (e_pc = "returned" /\ stop_after) => out[Len(out)] = DocClose

\* C14 witness: the flag was set, the loop was left with entries not yet
\* requested, and main has returned.
C14_Witness ==
    /\ e_pc = "returned" /\ stop_after
    /\ Len(requests) >= 1 /\ Len(requests) < Len(entries)
    /\ out[Len(out)] = DocClose

\* C15 (as claimed): when --max N is given, at most N sections are requested
\* (none for a negative N), and they are the first entries of the listing, in
\* listing order.
C15_MaxLimitsRequests ==
    max_arg.given =>
        /\ Len(requests) <= (IF max_arg.n < 0 THEN 0 ELSE max_arg.n)
        /\ \A i \in DOMAIN requests : requests[i].identifier = listing[i].identifier

\* C19 (as claimed): when main has returned, the file starts with the two
\* header lines and ends with the closing line.
C19_ClosedDocument ==
    e_pc = "returned" =>
        /\ Len(out) >= 3
        /\ out[1] = XmlDecl /\ out[2] = DocOpen
        /\ out[Len(out)] = DocClose

\* the identifiers of the section blocks of the file, in file order
RECURSIVE Blocks(_)
Blocks(o) ==
    IF o = <<>> THEN <<>>
    ELSE (IF Head(o).tag = "section" THEN <<Head(o).id>> ELSE <<>>) \o Blocks(Tail(o))

\* the identifiers of the requests rs that did not fail, in order
RECURSIVE Fetched(_)
Fetched(rs) ==
    IF rs = <<>> THEN <<>>
    ELSE (IF Head(rs).identifier \in failing THEN <<>> ELSE <<Head(rs).identifier>>)
            \o Fetched(Tail(rs))

\* the requests that have been answered
Answered == IF e_pc = "fetching" THEN SubSeq(requests, 1, Len(requests) - 1) ELSE requests

\* C20: the blocks of the file are the identifiers of the answered requests
\* that did not fail, in listing order (a failed section has no block); the
\* requests are made for the entries in order, none skipped; and when main
\* returns without the stop flag set, every entry has been requested.
C20_FailureIsLocal ==
    /\ Blocks(out) = Fetched(Answered)
    /\ Len(requests) <= Len(entries)
    /\ \A i \in DOMAIN requests : requests[i].identifier = entries[i].identifier
    /\ (e_pc = "returned" /\ ~stop_after) => Len(requests) = Len(entries)

\* C20 witness: main has returned after a request that failed was followed by
\* one that succeeded.
C20_Witness ==
    /\ e_pc = "returned"
    /\ \E i \in DOMAIN requests :
          /\ requests[i].identifier \in failing
          /\ i < Len(requests)
          /\ requests[i + 1].identifier \notin failing
          /\ requests[i + 1].identifier \in {b : b \in {Blocks(out)[n] : n \in DOMAIN Blocks(out)}}
          /\ requests[i].identifier \notin {Blocks(out)[n] : n \in DOMAIN Blocks(out)}

\* the link the loop of lines 79-93 makes of the href on the page final_url:
\* none when it drops the href (empty, fragment, other host, the page itself)
CandidateOf(href, final_url) == Range(extract_links(<<href>>, final_url))

\* the tasks requested at depth d since the last request of depth d - 1
ChildrenRequested(h, d) == Range(TasksAt(SubSeq(h, LastAt(h, d - 1) + 1, Len(h)), d))

\* C16: when a document is written, every href of the selected region that sits
\* inside a noise element and is a same-domain link to another page is among
\* the extracted links, while the converted document holds only the hrefs
\* outside noise elements; and when the task returns with depth < max_depth,
\* a request has been made for every extracted link.
C16_LinksBeforeNoiseRemoval ==
    [][/\ Len(saved') = Len(saved) + 1 =>
            LET src == saved'[Len(saved')]
                region == main_content(web, src)
                links == stack'[Len(stack)].links
            IN  /\ \A n \in region.noise :
                      CandidateOf(region.hrefs[n], src) \subseteq Range(links)
                /\ Len(Written(src).markdown) = Len(region.hrefs) - Cardinality(region.noise)
                /\ \A n \in DOMAIN region.hrefs :
                      n \notin region.noise =>
                          Written(src).markdown[n - Cardinality({m \in region.noise : m < n})]
                              = region.hrefs[n]
       /\ (Len(stack') < Len(stack) /\ status' = "running" /\ Top.pc = "loop"
              /\ Top.depth < max_depth) =>
            Range(Top.links) \subseteq ChildrenRequested(fetched, Top.depth + 1)
    ]_vars

\* C16 witness: the crawl is over; the link to https://h/a sat only in a noise
\* element of the root's <main>, is absent from the root's document, and the
\* page https://h/a was persisted.
C16_Witness ==
    /\ status = "done"
    /\ R \in web.main /\ web.hrefs[R] = <<HrefToA, HrefToB>> /\ web.noise[R] = {1}
    /\ \E f \in files : f.source = R /\ f.region = "main" /\ f.markdown = <<HrefToB>>
    /\ A \in Range(saved)

\* the region the claim prescribes for page p: which element, and its hrefs
Prescribed(p) ==
    IF p \in web.main THEN <<"main", web.hrefs[p]>>
    ELSE IF Len(web.field_item[p]) >= 1 THEN <<"field-item", web.field_item[p][1].hrefs>>
    ELSE IF Len(web.content_block[p]) >= 1
         THEN <<"content-block", web.content_block[p][1].hrefs>>
    ELSE <<"none", <<>>>>

\* C17: a task whose response arrived for a page not yet visited takes <main>
\* if the page has one, else its first field-item block, else its first
\* content-block block: the document is written from that region and the links
\* are extracted from it.  When the page has none of them the call returns:
\* no document is written, VisitedSet is unchanged, no link of the page is
\* followed and the crawl goes on.
C17_RegionPriority ==
    [][(/\ Len(fetched') = Len(fetched) + 1
        /\ RequestUrl(Top.url) \notin web.fail
        /\ FinalUrl(Top.url) \notin visited_urls
        /\ status' = "running") =>
            LET p == FinalUrl(Top.url)
            IN  IF Prescribed(p)[1] = "none"
                THEN /\ files' = files /\ saved' = saved
                     /\ visited_urls' = visited_urls
                     /\ stack' = Pop
                ELSE /\ saved' = Append(saved, p)
                     /\ Written(p).region = Prescribed(p)[1]
                     /\ stack'[Len(stack)].links = extract_links(Prescribed(p)[2], p)
    ]_vars

\* C17 witness: the crawl is over; the root page has no <main>, two field items
\* and content blocks, and its document was written from the first field item;
\* the page https://h/a it links to has no region, was fetched and was neither
\* persisted nor marked visited.
C17_Witness ==
    /\ status = "done"
    /\ R \notin web.main /\ web.field_item[R] = <<F2, F1>> /\ web.content_block[R] # <<>>
    /\ \E f \in files : f.source = R /\ f.region = "field-item" /\ f.markdown = <<HrefToA>>
    /\ A \notin web.main /\ A \notin web.fail
    /\ \E n \in DOMAIN fetched : fetched[n].url = A
    /\ A \notin visited_urls /\ A \notin Range(saved)

\* the task for the URL u gets a response with a content region
Persistable(u) ==
    RequestUrl(u) \notin web.fail /\ main_content(web, FinalUrl(u)).by # "none"

\* the final URLs of the pages reachable from the root through at most n links,
\* every page on the chain being fetched successfully with a content region
RECURSIVE Within(_)
Within(n) ==
    IF n = 0 THEN (IF Persistable(root_url) THEN {FinalUrl(root_url)} ELSE {})
    ELSE LET near == Within(n - 1)
         IN  near \cup UNION { { FinalUrl(l) :
                                   l \in { m \in Range(extract_links(
                                                     link_hrefs(main_content(web, q)), q)) :
                                           Persistable(m) } } : q \in near }

\* C18 (as claimed): when the crawl has finished, every page within max_depth
\* links of the root has been persisted.
C18_ReachablePersisted ==
    status = "done" => Within(max_depth) \subseteq Range(saved)

\* the paragraph the loop is at starts with a marker, as the code sees it
HasMarker == p_idx \notin removed /\ MatchLabel(get_text(p_idx)) # <<>>

\* C21: after the iteration for a paragraph with a marker the stack holds
\* exactly len(label) >= 1 lists, each the child of the one below it and the
\* first a top-level one, and the item of the paragraph is the last element of
\* the innermost list; when no list was open, the first list of the stack is a
\* new one, inserted before the paragraph.  After the iteration for a paragraph
\* without a marker the stack is empty.
C21_StackFollowsLabel ==
    [][(l_pc = "loop" /\ p_idx' = p_idx + 1) =>
        IF HasMarker
        THEN LET label == MatchLabel(get_text(p_idx))
                 n == Len(ul_stack')
             IN  /\ Len(label) >= 1 /\ n = Len(label)
                 /\ \A j \in 1..n : ul_stack'[j] \in DOMAIN uls'
                 /\ uls'[ul_stack'[1]].parent = 0
                 /\ \A j \in 2..n : uls'[ul_stack'[j]].parent = ul_stack'[j - 1]
                 /\ LET items == uls'[ul_stack'[n]].items
                    IN  items # <<>> /\ items[Len(items)] = <<"li", p_idx>>
                 /\ ul_stack = <<>> =>
                       /\ ul_stack'[1] \notin DOMAIN uls
                       /\ uls'[ul_stack'[1]].before = p_idx
        ELSE ul_stack' = <<>>
    ]_vars

\* C21 witness: the function has returned; a paragraph without a marker stood
\* between two paragraphs with markers, so two top-level lists exist, and a
\* marker of more than one character has opened a list inside a list.
C21_Witness ==
    /\ l_pc = "returned"
    /\ \E a, b \in DOMAIN uls : a < b /\ uls[a].before # 0 /\ uls[b].before > uls[a].before + 1
    /\ \E c \in DOMAIN uls : uls[c].parent # 0
    /\ ul_stack # <<>>

====
